---- MODULE Spec2Model ----
(***************************************************************************)
(* The Optimal Build Calculator view (frontend/src/App.js) and the damage  *)
(* heatmap component, as a state machine.                                  *)
(*                                                                         *)
(* JavaScript values are records tagged by "type".  A finite number is a   *)
(* normalised decimal m * 10^e (m carries the sign; m = 0 has e = 0; -0 is *)
(* identified with 0).  A string the code parses is a sequence of          *)
(* one-character strings; a string the code only stores or shows is a TLA+ *)
(* string.                                                                 *)
(*                                                                         *)
(* inputs, results, error: the three useState cells of App.                *)
(* requests: one entry per axios.post issued, with the event count at      *)
(*   which it was sent and at which it settled (0 while pending).          *)
(* dataToSend: the body of the latest POST.                                *)
(* lastOp: the latest event handled and its arguments.                     *)
(* data, plot: the prop of DamageHeatmap and what it rendered.             *)
(***************************************************************************)
EXTENDS Integers, Sequences, FiniteSets, TLC

VARIABLES inputs, results, error, requests, dataToSend, lastOp, data, plot

vars == <<inputs, results, error, requests, dataToSend, lastOp, data, plot>>

---------------------------------------------------------------------------
(* Bounds of the model. *)

MaxSubmits == 2
MaxSamples == 2

---------------------------------------------------------------------------
(* JavaScript values. *)

Null == [type |-> "null"]
Undefined == [type |-> "undefined"]
NaN == [type |-> "number", cls |-> "nan", m |-> 0, e |-> 0]
PosInfinity == [type |-> "number", cls |-> "inf", m |-> 1, e |-> 0]
NegInfinity == [type |-> "number", cls |-> "inf", m |-> -1, e |-> 0]
Str(s) == [type |-> "string", s |-> s]
Text(chars) == [type |-> "string", chars |-> chars]

RECURSIVE Normalize(_, _)
Normalize(m, e) ==
  IF m = 0 THEN [m |-> 0, e |-> 0]
  ELSE IF m % 10 = 0 THEN Normalize(m \div 10, e + 1)
  ELSE [m |-> m, e |-> e]

RECURSIVE NumDigits(_)
NumDigits(n) == IF n < 10 THEN 1 ELSE 1 + NumDigits(n \div 10)

(* The double that the decimal sign * m * 10^e rounds to: beyond the       *)
(* largest double (about 1.8 * 10^308) it is an infinity, below the        *)
(* smallest subnormal (about 4.9 * 10^-324) it is zero.                    *)
Num(sign, m, e) ==
  LET n == Normalize(m, e) IN
  IF n.m # 0 /\ NumDigits(n.m) + n.e > 309
    THEN (IF sign < 0 THEN NegInfinity ELSE PosInfinity)
  ELSE IF n.m # 0 /\ NumDigits(n.m) + n.e < -323
    THEN [type |-> "number", cls |-> "finite", m |-> 0, e |-> 0]
  ELSE [type |-> "number", cls |-> "finite", m |-> sign * n.m, e |-> n.e]

Number(n) == IF n < 0 THEN Num(-1, -n, 0) ELSE Num(1, n, 0)

Truthy(v) ==
  CASE v.type \in {"null", "undefined"} -> FALSE
    [] v.type = "string" -> v # Str("") /\ v # Text(<<>>)
    [] v.type = "number" -> v.cls # "nan" /\ v.m # 0
    [] OTHER -> TRUE

---------------------------------------------------------------------------
(* parseFloat and isNaN, as ECMAScript defines them. *)

Digits == {"0", "1", "2", "3", "4", "5", "6", "7", "8", "9"}
DigitVal == [c \in Digits |->
  CASE c = "0" -> 0 [] c = "1" -> 1 [] c = "2" -> 2 [] c = "3" -> 3
    [] c = "4" -> 4 [] c = "5" -> 5 [] c = "6" -> 6 [] c = "7" -> 7
    [] c = "8" -> 8 [] c = "9" -> 9]
WhiteSpace == {" "}
InfinityChars == <<"I", "n", "f", "i", "n", "i", "t", "y">>

Drop(s, n) == SubSeq(s, n + 1, Len(s))
IsPrefix(p, s) == Len(p) <= Len(s) /\ SubSeq(s, 1, Len(p)) = p

RECURSIVE TrimStart(_)
TrimStart(s) ==
  IF s # <<>> /\ Head(s) \in WhiteSpace THEN TrimStart(Tail(s)) ELSE s

(* Length of the longest prefix of s made of decimal digits. *)
RECURSIVE DigitRun(_)
DigitRun(s) ==
  IF s # <<>> /\ Head(s) \in Digits THEN 1 + DigitRun(Tail(s)) ELSE 0

RECURSIVE DigitsToNat(_)
DigitsToNat(s) ==
  IF s = <<>> THEN 0
  ELSE 10 * DigitsToNat(SubSeq(s, 1, Len(s) - 1)) + DigitVal[s[Len(s)]]

(* The parts of a StrDecimalLiteral: an optional sign, a mantissa (digits  *)
(* with at most one point and at least one digit), an optional exponent    *)
(* (e or E, an optional sign, at least one digit).  Each operator takes    *)
(* the text from where its part starts and gives the longest match.        *)
SignLen(t) == IF t # <<>> /\ Head(t) \in {"+", "-"} THEN 1 ELSE 0
SignVal(t) == IF t # <<>> /\ Head(t) = "-" THEN -1 ELSE 1

HasPoint(a) == a # <<>> /\ Head(a) = "."
MantissaLen(u) ==
  LET ni == DigitRun(u)
      nf == IF HasPoint(Drop(u, ni)) THEN DigitRun(Drop(u, ni + 1)) ELSE 0
  IN  IF HasPoint(Drop(u, ni)) /\ (ni > 0 \/ nf > 0) THEN ni + 1 + nf ELSE ni
IsDigit(c) == c \in Digits
MantissaDigits(u) == SelectSeq(SubSeq(u, 1, MantissaLen(u)), IsDigit)
FractionLen(u) == Len(MantissaDigits(u)) - DigitRun(u)

ExponentLen(x) ==
  IF x # <<>> /\ Head(x) \in {"e", "E"}
    THEN LET n == DigitRun(Drop(x, 1 + SignLen(Tail(x))))
         IN  IF n > 0 THEN 1 + SignLen(Tail(x)) + n ELSE 0
    ELSE 0
ExponentVal(x) ==
  IF ExponentLen(x) = 0 THEN 0
  ELSE SignVal(Tail(x))
       * DigitsToNat(SubSeq(x, 2 + SignLen(Tail(x)), ExponentLen(x)))

(* The longest prefix of s (after leading white space) that is a           *)
(* StrDecimalLiteral: ok is whether there is one, inf whether it is        *)
(* Infinity, mant its digits with the point removed, frac the number of    *)
(* digits after the point, exp its exponent, len the number of characters  *)
(* it takes and rest the number of characters there are.                   *)
DecimalPrefix(s) ==
  LET t == TrimStart(s)
      u == Drop(t, SignLen(t))
  IN  IF IsPrefix(InfinityChars, u)
        THEN [ok |-> TRUE, sign |-> SignVal(t), inf |-> TRUE, mant |-> <<>>, frac |-> 0,
              exp |-> 0, len |-> SignLen(t) + Len(InfinityChars), rest |-> Len(t)]
      ELSE IF MantissaDigits(u) = <<>>
        THEN [ok |-> FALSE, sign |-> SignVal(t), inf |-> FALSE, mant |-> <<>>, frac |-> 0,
              exp |-> 0, len |-> 0, rest |-> Len(t)]
      ELSE [ok |-> TRUE, sign |-> SignVal(t), inf |-> FALSE,
            mant |-> MantissaDigits(u),
            frac |-> FractionLen(u),
            exp |-> ExponentVal(Drop(u, MantissaLen(u))),
            len |-> SignLen(t) + MantissaLen(u) + ExponentLen(Drop(u, MantissaLen(u))),
            rest |-> Len(t)]

(* parseFloat(value): a number argument is converted to its decimal string *)
(* first, which parses back to the same number.                            *)
parseFloat(value) ==
  IF value.type = "number" THEN value
  ELSE IF value.type # "string" \/ "chars" \notin DOMAIN value THEN NaN
  ELSE LET p == DecimalPrefix(value.chars) IN
       IF ~p.ok THEN NaN
       ELSE IF p.inf THEN (IF p.sign < 0 THEN NegInfinity ELSE PosInfinity)
       ELSE Num(p.sign, DigitsToNat(p.mant), p.exp - p.frac)

isNaN(v) == v.type = "number" /\ v.cls = "nan"

---------------------------------------------------------------------------
(* The view: App.js. *)

Keys == {"K", "I", "F", "S", "CR0", "CD0"}

(* useState initial values. *)
InitialInputs ==
  [k \in Keys |->
    CASE k = "K" -> Number(1000) [] k = "I" -> Number(10) [] k = "F" -> Number(500)
      [] k = "S" -> Number(50) [] k = "CR0" -> Number(5) [] k = "CD0" -> Number(50)]

FallbackMessage == Str("An unexpected error occurred.")

(* Response bodies of the calculation endpoint. *)
SuccessBodies ==
  { [type |-> "object", optimal_x |-> 1, optimal_y |-> 2, optimal_z |-> 3, max_damage |-> 4],
    [type |-> "object", optimal_x |-> 5, optimal_y |-> 6, optimal_z |-> 7, max_damage |-> 8] }
FailureBodies ==
  { [type |-> "object", error |-> Str("K must be positive")],
    [type |-> "object"],
    Str(""),
    Null }

(* How a pending axios.post settles: fulfilled with a 2xx response,        *)
(* rejected with a non-2xx response, or rejected without any response.     *)
Outcomes ==
  { [settled |-> "fulfilled", response |-> TRUE, body |-> b] : b \in SuccessBodies }
  \cup { [settled |-> "rejected", response |-> TRUE, body |-> b] : b \in FailureBodies }
  \cup { [settled |-> "rejected", response |-> FALSE, body |-> Undefined] }

NoOutcome == [settled |-> "pending", response |-> FALSE, body |-> Undefined]

(* Events so far: one per axios.post issued and one per settled request. *)
Pending(r) == r.doneAt = 0
Clock == Len(requests) + Cardinality({i \in DOMAIN requests : ~Pending(requests[i])})

(* The edit of the older view: [name]: parseFloat(value) || 0 *)
SetFieldCoerced(prev, name, value) ==
  [k \in DOMAIN prev \cup {name} |->
    IF k = name
      THEN (IF Truthy(parseFloat(value)) THEN parseFloat(value) ELSE Number(0))
      ELSE prev[k]]

(* prev => ({ ...prev, [name]: value }) *)
SetField(prev, name, value) ==
  [k \in DOMAIN prev \cup {name} |-> IF k = name THEN value ELSE prev[k]]

handleInputChange(name, value) ==
  /\ inputs' = SetField(inputs, name, value)
  /\ lastOp' = [op |-> "change", name |-> name, value |-> value, req |-> 0, outcome |-> NoOutcome]
  /\ UNCHANGED <<results, error, requests, dataToSend, data, plot>>

(* The loop over the keys of inputs that builds the request body. *)
Coerce(value) ==
  LET parsedValue == parseFloat(value) IN
  IF isNaN(parsedValue) THEN Number(0) ELSE parsedValue

BuildData(in) == [key \in DOMAIN in |-> Coerce(in[key])]

(* A submission that forgets setResults(null). *)
handleSubmitKeepsResults ==
  /\ error' = Null
  /\ results' = results
  /\ dataToSend' = BuildData(inputs)
  /\ requests' = Append(requests, [sentAt |-> Clock + 1, doneAt |-> 0])
  /\ lastOp' = [op |-> "submit", name |-> "", value |-> Undefined, req |-> Len(requests) + 1,
                outcome |-> NoOutcome]
  /\ UNCHANGED <<inputs, data, plot>>

(* handleSubmit up to its await: both setters and the POST run in one turn *)
(* of the event loop.                                                      *)
handleSubmit ==
  /\ error' = Null
  /\ results' = Null
  /\ dataToSend' = BuildData(inputs)
  /\ requests' = Append(requests, [sentAt |-> Clock + 1, doneAt |-> 0])
  /\ lastOp' = [op |-> "submit", name |-> "", value |-> Undefined, req |-> Len(requests) + 1,
                outcome |-> NoOutcome]
  /\ UNCHANGED <<inputs, data, plot>>

(* err.response ? err.response.data.error : "An unexpected error occurred." *)
(* Reading a property of null or undefined throws a TypeError.             *)
Throws(o) == o.response /\ o.body.type \in {"null", "undefined"}
ErrorOf(o) ==
  IF o.response
    THEN (IF "error" \in DOMAIN o.body THEN o.body.error ELSE Undefined)
    ELSE FallbackMessage

(* handleSubmit after its await, for request i settling as o. *)
Settle(i, o) ==
  /\ i \in DOMAIN requests
  /\ Pending(requests[i])
  /\ requests' = [requests EXCEPT ![i].doneAt = Clock + 1]
  /\ IF o.settled = "fulfilled"
       THEN results' = o.body /\ error' = error
       ELSE /\ results' = results
            /\ error' = IF Throws(o) THEN error ELSE ErrorOf(o)
  /\ lastOp' = [op |-> "settle", name |-> "", value |-> Undefined, req |-> i, outcome |-> o]
  /\ UNCHANGED <<inputs, dataToSend, data, plot>>

---------------------------------------------------------------------------
(* The heatmap component. *)

Array(items) == [type |-> "array", items |-> items]

GetX(d) == d.x
GetY(d) == d.y
(* The colour taken from the wrong field. *)
GetZ(d) == d.z
GetDamage(d) == d.damage
GetCustom(d) == <<d.z, d.damage>>

DamageHeatmap(d) ==
  IF ~Truthy(d) \/ Len(d.items) = 0 THEN Null
  ELSE LET x_coords == [i \in 1..Len(d.items) |-> GetX(d.items[i])]
           y_coords == [i \in 1..Len(d.items) |-> GetY(d.items[i])]
           damage_coords == [i \in 1..Len(d.items) |-> GetDamage(d.items[i])]
           customData == [i \in 1..Len(d.items) |-> GetCustom(d.items[i])]
           plotData == << [x |-> x_coords, y |-> y_coords, z |-> damage_coords,
                           type |-> "heatmap", colorscale |-> "Jet",
                           customdata |-> customData] >>
       IN  [type |-> "Plot", data |-> plotData]

Unmounted == [type |-> "unmounted"]

Render ==
  /\ plot = Unmounted
  /\ plot' = DamageHeatmap(data)
  /\ UNCHANGED <<inputs, results, error, requests, dataToSend, lastOp, data>>

---------------------------------------------------------------------------
(* Specifications. *)

NoOp == [op |-> "init", name |-> "", value |-> Undefined, req |-> 0, outcome |-> NoOutcome]

InitView ==
  /\ inputs = InitialInputs
  /\ results = Null
  /\ error = Null
  /\ requests = <<>>
  /\ dataToSend = Undefined
  /\ lastOp = NoOp

Init ==
  /\ InitView
  /\ data = Undefined
  /\ plot = Unmounted

(* Raw texts an edit may carry. *)
RawValues ==
  { Text(<<>>), Text(<<"-">>), Text(<<"-", "1", ".", "5">>),
    Text(<<"1", "a">>) }
Names == {"K", "CD0", "bogus"}

RaceValues == { Text(<<>>), Text(<<"1", "2">>) }
RaceNames == {"K"}

(* Submissions may overlap; responses arrive in any order. *)
Next ==
  \/ \E name \in RaceNames, value \in RaceValues : handleInputChange(name, value)
  \/ Len(requests) < MaxSubmits /\ handleSubmit
  \/ \E i \in DOMAIN requests, o \in Outcomes : Settle(i, o)

Spec == Init /\ [][Next]_vars

(* Any edit; a submission waits for the previous response. *)
NextInput ==
  \/ \E name \in Names, value \in RawValues : handleInputChange(name, value)
  \/ /\ Len(requests) < MaxSubmits
     /\ \A i \in DOMAIN requests : ~Pending(requests[i])
     /\ handleSubmit
  \/ \E i \in DOMAIN requests, o \in Outcomes : Settle(i, o)

SpecInput == Init /\ [][NextInput]_vars

Samples == [x : {1, 2}, y : {1, 2}, z : {1, 2}, damage : {1, 2}]
HeatmapInputs ==
  {Undefined, Null}
  \cup { Array(s) : s \in UNION { [1..n -> Samples] : n \in 0..MaxSamples } }

InitHeatmap ==
  /\ InitView
  /\ data \in HeatmapInputs
  /\ plot = Unmounted

NextHeatmap == Render

SpecHeatmap == InitHeatmap /\ [][NextHeatmap]_vars

---------------------------------------------------------------------------
(* Properties. *)

(* What the view shows: {error && ...}, {results && ...}. *)
Shown(v) == Truthy(v)
AllSettled == \A i \in DOMAIN requests : ~Pending(requests[i])

(* C1: in every reachable state at most one of results and error is        *)
(* populated.                                                              *)
C1_MutuallyExclusive == ~(Shown(results) /\ Shown(error))

(* The display a response produces when it is the only one: the state      *)
(* after a submission from a cleared view and that response.               *)
AloneResults(o) == IF o.settled = "fulfilled" THEN o.body ELSE Null
AloneError(o) ==
  IF o.settled = "fulfilled" \/ Throws(o) THEN Null ELSE ErrorOf(o)

(* C2: for two overlapping submissions, once both responses have arrived   *)
(* the display is exactly what the last-arriving response alone produces.  *)
C2_LastResponseWins ==
  ( /\ Len(requests) = 2
    /\ AllSettled
    /\ requests[1].doneAt > requests[2].sentAt
    /\ lastOp.op = "settle" )
  => /\ results = AloneResults(lastOp.outcome)
     /\ error = AloneError(lastOp.outcome)

(* Whether the failure carries a response whose body has an error field. *)
HasErrorField(o) ==
  o.response /\ o.body.type = "object" /\ "error" \in DOMAIN o.body

(* C3: when a request fails, error is a non-empty message: the body's      *)
(* error field if the body has one, otherwise the fallback message.        *)
C3_FailureSetsMessage ==
  (lastOp.op = "settle" /\ lastOp.outcome.settled = "rejected")
  => /\ Shown(error)
     /\ error = IF HasErrorField(lastOp.outcome)
                  THEN lastOp.outcome.body.error
                  ELSE FallbackMessage

(* A stored value is numeric when it is a number, or a text that is a      *)
(* decimal literal from its first character to its last.                   *)
IsNumeric(v) ==
  \/ v.type = "number"
  \/ /\ v.type = "string"
     /\ "chars" \in DOMAIN v
     /\ DecimalPrefix(v.chars).ok
     /\ DecimalPrefix(v.chars).len = DecimalPrefix(v.chars).rest

(* C4: a submission sends 0 for every field whose stored value is empty or *)
(* non-numeric and the parsed value for every field whose stored value is  *)
(* numeric, and leaves the stored inputs unchanged.                        *)
C4_PayloadCoercion ==
  [][ lastOp'.op = "submit"
      => /\ inputs' = inputs
         /\ \A k \in DOMAIN inputs :
              dataToSend'[k] = IF IsNumeric(inputs[k]) THEN parseFloat(inputs[k])
                               ELSE Number(0) ]_vars

(* C5: after any edits, the body of a submission has exactly the six keys  *)
(* and every value is a finite number.                                     *)
C5_PayloadSixFinite ==
  dataToSend # Undefined
  => /\ DOMAIN dataToSend = Keys
     /\ \A k \in DOMAIN dataToSend :
          dataToSend[k].type = "number" /\ dataToSend[k].cls = "finite"

(* C6: an edit whose name is not one of the six keys changes nothing in    *)
(* inputs, its set of keys included.                                       *)
C6_UnknownNameNoOp ==
  [][ (lastOp'.op = "change" /\ lastOp'.name \notin Keys) => inputs' = inputs ]_vars

(* C7: an edit of a recognized key stores the raw value exactly as given   *)
(* and leaves the other fields, results and error unchanged.               *)
C7_EditStoresRaw ==
  [][ (lastOp'.op = "change" /\ lastOp'.name \in Keys)
      => /\ inputs'[lastOp'.name] = lastOp'.value
         /\ DOMAIN inputs' = DOMAIN inputs
         /\ \A k \in DOMAIN inputs \ {lastOp'.name} : inputs'[k] = inputs[k]
         /\ results' = results
         /\ error' = error ]_vars

(* A bare "-" typed into K while a result is displayed. *)
C7_Witness ==
  /\ lastOp.op = "change"
  /\ lastOp.name = "K"
  /\ lastOp.value = Text(<<"-">>)
  /\ inputs["K"] = Text(<<"-">>)
  /\ inputs["CD0"] = Number(50)
  /\ Shown(results)

NumPending(rs) == Cardinality({i \in DOMAIN rs : Pending(rs[i])})

(* C8: every submission issues exactly one request, and every request that *)
(* settles leaves exactly one of results and error set.                    *)
C8_OneExitPerRequest ==
  [][ /\ lastOp'.op = "submit"
         => Len(requests') = Len(requests) + 1
            /\ NumPending(requests') = NumPending(requests) + 1
      /\ lastOp'.op = "settle"
         => /\ NumPending(requests') = NumPending(requests) - 1
            /\ Shown(results') # Shown(error') ]_vars

(* C9: while the latest request is pending and no response has arrived     *)
(* since it was issued, neither a result nor an error is displayed.        *)
C9_SubmitClears ==
  ( /\ requests # <<>>
    /\ Pending(requests[Len(requests)])
    /\ \A i \in DOMAIN requests :
         ~Pending(requests[i]) => requests[i].doneAt < requests[Len(requests)].sentAt )
  => results = Null /\ error = Null

(* A second submission issued after the first one's response arrived. *)
C9_Witness ==
  /\ Len(requests) = 2
  /\ ~Pending(requests[1])
  /\ requests[1].doneAt < requests[2].sentAt
  /\ Pending(requests[2])
  /\ lastOp.op = "submit"
  /\ results = Null
  /\ error = Null

(* C10: for N >= 1 samples the heatmap is one series whose x, y and colour *)
(* sequences have N entries, entry i being sample i's x, y and damage, and *)
(* z is only in the hover data; for no samples nothing is rendered.        *)
C10_HeatmapSeries ==
  plot # Unmounted
  => IF data.type # "array" \/ Len(data.items) = 0
       THEN plot = Null
       ELSE /\ plot.type = "Plot"
            /\ Len(plot.data) = 1
            /\ LET series == plot.data[1]
                   N == Len(data.items)
               IN  /\ Len(series.x) = N
                   /\ Len(series.y) = N
                   /\ Len(series.z) = N
                   /\ Len(series.customdata) = N
                   /\ \A i \in 1..N :
                        /\ series.x[i] = data.items[i].x
                        /\ series.y[i] = data.items[i].y
                        /\ series.z[i] = data.items[i].damage
                        /\ series.customdata[i][1] = data.items[i].z

(* Two samples rendered, the first with z different from its damage. *)
C10_Witness ==
  /\ plot.type = "Plot"
  /\ data.type = "array"
  /\ Len(data.items) = 2
  /\ data.items[1].z # data.items[1].damage
  /\ data.items[1] # data.items[2]
  /\ Len(plot.data[1].z) = 2

====
